---- MODULE Spec2Model ----
(***************************************************************************)
(* A model of the MCP tool bridge (agent/mcp/bridge.py) together with the  *)
(* two in-memory providers it always registers (mock_totalobserver.py,     *)
(* mock_crm.py) and the two optional Google providers                      *)
(* (google_calendar_client.py, gmail_client.py).                           *)
(*                                                                         *)
(* Conventions.  Python None is the string "None".  A formatted string     *)
(* (an f-string) is a record holding the template's name and the values    *)
(* interpolated into it, so that "the message contains x" is a statement   *)
(* about a field.  Text that the code lower-cases or searches is a         *)
(* sequence of one-character strings.  A provider method is an operator    *)
(* from the provider state, the keyword arguments and the environment to   *)
(* an outcome record                                                       *)
(*    [raised, value, exc, st]                                             *)
(* where st is the provider state after the call.                          *)
(***************************************************************************)
EXTENDS Integers, Sequences, FiniteSets, TLC

VARIABLES
    use_real_google,  \* the constructor's argument
    calInit,          \* what GoogleCalendarClient() did during construction
    gmailInit,        \* what GmailClient() did during construction
    calendar,         \* MCPBridge.calendar
    gmail,            \* MCPBridge.gmail
    tools,            \* MCPBridge.tools, a dict in insertion order
    work_orders,      \* MockTotalObserverClient.work_orders
    next_wo_id,       \* MockTotalObserverClient._next_wo_id
    contacts,         \* MockCRMClient.contacts
    interactions,     \* MockCRMClient.interactions
    last,             \* the last bridge operation and what it returned
    inflight,         \* per caller, the frame of its call_tool in progress
    history           \* per contact, the interactions that successful
                      \* log_interaction calls returned, in call order

vars == <<use_real_google, calInit, gmailInit, calendar, gmail, tools,
          work_orders, next_wo_id, contacts, interactions, last, inflight,
          history>>

\* -------------------------------------------------------------------------
\* Bounds of the model
\* -------------------------------------------------------------------------
MaxAppended == 1   \* work orders created plus interactions logged

\* -------------------------------------------------------------------------
\* Python values
\* -------------------------------------------------------------------------
None == "None"

\* bool(x) of a string-or-None value: None and "" are falsy.
Truthy(v) == v # None /\ v # ""

\* kwargs.get(k, default) of a keyword mapping.
Arg(args, k, default) == IF k \in DOMAIN args THEN args[k] ELSE default

\* dict.get(k) of a record loaded from JSON.
DictGet(rec, k) == IF k \in DOMAIN rec THEN rec[k] ELSE None

\* d[k] = v on a record: the key is added when it is missing.
DictSet(rec, k, v) == [f \in DOMAIN rec \cup {k} |-> IF f = k THEN v ELSE rec[f]]

\* next((x for x in seq if x["id"] == id), None): the index of the first
\* match, 0 for None.
FindById(seq, id) ==
    IF \E i \in 1..Len(seq) : seq[i].id = id
    THEN CHOOSE i \in 1..Len(seq) :
            /\ seq[i].id = id
            /\ \A j \in 1..(i - 1) : seq[j].id # id
    ELSE 0

\* seq[:n]
Take(seq, n) == SubSeq(seq, 1, IF Len(seq) < n THEN Len(seq) ELSE n)

\* x in list
InList(x, seq) == \E i \in 1..Len(seq) : seq[i] = x

\* str.lower() on the characters the fixtures use.
LowerChar(c) ==
    CASE c = "A" -> "a"
      [] c = "D" -> "d"
      [] c = "T" -> "t"
      [] c = "O" -> "o"
      [] OTHER -> c

Lower(s) == [i \in 1..Len(s) |-> LowerChar(s[i])]

\* sub in s, for strings
Contains(sub, s) ==
    \E i \in 0..(Len(s) - Len(sub)) :
        \A j \in 1..Len(sub) : s[i + j] = sub[j]

\* The binding of keyword arguments to a method's parameters: a missing
\* required parameter or an unexpected keyword raises TypeError before the
\* body runs.
BindOk(required, optional, args) ==
    /\ required \subseteq DOMAIN args
    /\ DOMAIN args \subseteq (required \cup optional)

\* The parameters of every provider method, after self.
Params(method) ==
    CASE method = "create_work_order" ->
            [required |-> {"building_id", "issue_type", "description"},
             optional |-> {"priority", "reporter_name"}]
      [] method = "get_work_order_status" ->
            [required |-> {"work_order_id"}, optional |-> {}]
      [] method = "list_open_work_orders" ->
            [required |-> {}, optional |-> {"building_id", "technician_id"}]
      [] method = "assign_technician" ->
            [required |-> {"work_order_id", "technician_id"}, optional |-> {}]
      [] method = "get_building_info" ->
            [required |-> {"building_id"}, optional |-> {}]
      [] method = "get_technician_availability" ->
            [required |-> {}, optional |-> {"date", "skill_type"}]
      [] method = "update_work_order" ->
            [required |-> {"work_order_id"}, optional |-> {"status", "notes"}]
      [] method = "get_tenant_info" ->
            [required |-> {"tenant_name"}, optional |-> {}]
      [] method = "search_contacts" ->
            [required |-> {"query"}, optional |-> {}]
      [] method = "get_contact_details" ->
            [required |-> {"contact_id"}, optional |-> {}]
      [] method = "get_deal_pipeline" ->
            [required |-> {}, optional |-> {"stage"}]
      [] method = "log_interaction" ->
            [required |-> {"contact_id", "interaction_type", "notes"},
             optional |-> {}]
      [] method = "create_task" ->
            [required |-> {"contact_id", "title", "due_date"}, optional |-> {}]
      [] method = "get_company_info" ->
            [required |-> {"company_name"}, optional |-> {}]
      [] method = "get_calendar_events" ->
            [required |-> {},
             optional |-> {"start_date", "end_date", "max_results"}]
      [] method = "create_event" ->
            [required |-> {"title", "start_time", "end_time"},
             optional |-> {"attendees", "description"}]
      [] method = "check_availability" ->
            [required |-> {"date"}, optional |-> {"duration_minutes"}]
      [] method = "reschedule_event" ->
            [required |-> {"event_id", "new_start_time"}, optional |-> {}]
      [] method = "search_emails" ->
            [required |-> {"query"}, optional |-> {"max_results"}]
      [] method = "get_email_thread" ->
            [required |-> {"thread_id"}, optional |-> {}]
      [] method = "draft_email" ->
            [required |-> {"to", "subject", "body"}, optional |-> {}]
      [] method = "send_email" ->
            [required |-> {"to", "subject", "body"}, optional |-> {}]
      [] method = "get_recent_emails" ->
            [required |-> {}, optional |-> {"from_address", "max_results"}]

Binds(method, args) ==
    BindOk(Params(method).required, Params(method).optional, args)

TypeError(method) == [class |-> "TypeError", method |-> method]

\* Outcomes of a provider method.
Return(value, st) == [raised |-> FALSE, value |-> value, exc |-> None, st |-> st]
Raise(exc, st) == [raised |-> TRUE, value |-> None, exc |-> exc, st |-> st]

\* -------------------------------------------------------------------------
\* Fixtures: the mock data the providers load at construction
\* -------------------------------------------------------------------------
FirstWoId == 1848

WoId(n) == <<"WO-2024-", n>>

Buildings == <<
    [id |-> "plaza-mall", name |-> "Plaza Shopping Mall"],
    [id |-> "tech-park", name |-> "Tech Park Office Complex"] >>

Technicians == <<
    [id |-> "tech-001", name |-> "Marko Stankovic", available |-> TRUE,
     skills |-> <<"HVAC">>],
    [id |-> "tech-002", name |-> "Ana Mitrovic", available |-> FALSE,
     skills |-> <<"Elektrika">>] >>

LoadedWorkOrders == <<
    [id |-> WoId(FirstWoId - 1), building_id |-> "plaza-mall",
     building_name |-> "Plaza Shopping Mall", issue_type |-> "HVAC",
     description |-> "Klima ne radi", priority |-> "high",
     status |-> "pending", assigned_to |-> None, assigned_to_name |-> None,
     created_at |-> 0, reporter |-> "Dragan"] >>

LoadedContacts == <<
    [id |-> "contact-001", name |-> <<"D", "r">>, company |-> <<"T", "O">>,
     deal_stage |-> "negotiation", deal_value |-> "15000", last_contact |-> 0],
    [id |-> "contact-002", name |-> <<"a", "n">>, company |-> <<"t", "o">>,
     last_contact |-> 0] >>

\* The state the providers own.
ProviderState(wos, nid, cts, ints) ==
    [work_orders |-> wos, next_wo_id |-> nid, contacts |-> cts,
     interactions |-> ints]

\* -------------------------------------------------------------------------
\* MockTotalObserverClient
\* -------------------------------------------------------------------------
IsOpen(wo) == wo.status \in {"pending", "in_progress"}

\* A variant of create_work_order that takes the next number before it
\* looks the building up, so that a failing creation consumes one.
create_work_order_CountsFailures(st, args, t) ==
    IF ~Binds("create_work_order", args)
    THEN Raise(TypeError("create_work_order"), st)
    ELSE
    LET b == FindById(Buildings, args.building_id) IN
    IF b = 0
    THEN Return([error |-> [fmt |-> "Building '{}' not found",
                            id |-> args.building_id]],
                [st EXCEPT !.next_wo_id = @ + 1])
    ELSE
    LET wo_id == WoId(st.next_wo_id)
        reporter_name == Arg(args, "reporter_name", None)
        work_order ==
            [id |-> wo_id,
             building_id |-> args.building_id,
             building_name |-> Buildings[b].name,
             issue_type |-> args.issue_type,
             description |-> args.description,
             priority |-> Arg(args, "priority", "medium"),
             status |-> "pending",
             assigned_to |-> None,
             assigned_to_name |-> None,
             created_at |-> t,
             reporter |-> IF Truthy(reporter_name) THEN reporter_name
                          ELSE "AI Assistant"]
    IN  Return([success |-> TRUE,
                work_order |-> work_order,
                message |-> [fmt |-> "Radni nalog {} je kreiran za {}",
                             id |-> wo_id, name |-> Buildings[b].name]],
               [st EXCEPT !.next_wo_id = @ + 1,
                          !.work_orders = Append(@, work_order)])

create_work_order(st, args, t) ==
    IF ~Binds("create_work_order", args)
    THEN Raise(TypeError("create_work_order"), st)
    ELSE
    LET b == FindById(Buildings, args.building_id) IN
    IF b = 0
    THEN Return([error |-> [fmt |-> "Building '{}' not found",
                            id |-> args.building_id]], st)
    ELSE
    LET wo_id == WoId(st.next_wo_id)
        reporter_name == Arg(args, "reporter_name", None)
        work_order ==
            [id |-> wo_id,
             building_id |-> args.building_id,
             building_name |-> Buildings[b].name,
             issue_type |-> args.issue_type,
             description |-> args.description,
             priority |-> Arg(args, "priority", "medium"),
             status |-> "pending",
             assigned_to |-> None,
             assigned_to_name |-> None,
             created_at |-> t,
             reporter |-> IF Truthy(reporter_name) THEN reporter_name
                          ELSE "AI Assistant"]
    IN  Return([success |-> TRUE,
                work_order |-> work_order,
                message |-> [fmt |-> "Radni nalog {} je kreiran za {}",
                             id |-> wo_id, name |-> Buildings[b].name]],
               [st EXCEPT !.next_wo_id = @ + 1,
                          !.work_orders = Append(@, work_order)])

get_work_order_status(st, args) ==
    IF ~Binds("get_work_order_status", args)
    THEN Raise(TypeError("get_work_order_status"), st)
    ELSE
    LET w == FindById(st.work_orders, args.work_order_id) IN
    IF w = 0
    THEN Return([error |-> [fmt |-> "Work order '{}' not found",
                            id |-> args.work_order_id]], st)
    ELSE Return([success |-> TRUE, work_order |-> st.work_orders[w]], st)

\* A variant of list_open_work_orders whose technician filter starts again
\* from the open work orders, dropping the building filter.
list_open_work_orders_LastFilterWins(st, args) ==
    IF ~Binds("list_open_work_orders", args)
    THEN Raise(TypeError("list_open_work_orders"), st)
    ELSE
    LET building_id == Arg(args, "building_id", None)
        technician_id == Arg(args, "technician_id", None)
        InBuilding(wo) == wo.building_id = building_id
        OfTechnician(wo) == wo.assigned_to = technician_id
        open == SelectSeq(st.work_orders, IsOpen)
        byBuilding == IF Truthy(building_id) THEN SelectSeq(open, InBuilding)
                      ELSE open
        filtered == IF Truthy(technician_id)
                    THEN SelectSeq(open, OfTechnician)
                    ELSE byBuilding
    IN  Return([success |-> TRUE, work_orders |-> filtered,
                count |-> Len(filtered)], st)

list_open_work_orders(st, args) ==
    IF ~Binds("list_open_work_orders", args)
    THEN Raise(TypeError("list_open_work_orders"), st)
    ELSE
    LET building_id == Arg(args, "building_id", None)
        technician_id == Arg(args, "technician_id", None)
        InBuilding(wo) == wo.building_id = building_id
        OfTechnician(wo) == wo.assigned_to = technician_id
        open == SelectSeq(st.work_orders, IsOpen)
        byBuilding == IF Truthy(building_id) THEN SelectSeq(open, InBuilding)
                      ELSE open
        filtered == IF Truthy(technician_id)
                    THEN SelectSeq(byBuilding, OfTechnician)
                    ELSE byBuilding
    IN  Return([success |-> TRUE, work_orders |-> filtered,
                count |-> Len(filtered)], st)

\* A variant of assign_technician that writes the assignment before it
\* looks the technician up.
assign_technician_ChecksLate(st, args) ==
    IF ~Binds("assign_technician", args)
    THEN Raise(TypeError("assign_technician"), st)
    ELSE
    LET w == FindById(st.work_orders, args.work_order_id)
        k == FindById(Technicians, args.technician_id)
    IN
    IF w = 0
    THEN Return([error |-> [fmt |-> "Work order '{}' not found",
                            id |-> args.work_order_id]], st)
    ELSE IF k = 0
    THEN Return([error |-> [fmt |-> "Technician '{}' not found",
                            id |-> args.technician_id]],
                [st EXCEPT !.work_orders[w] =
                    DictSet(@, "assigned_to", args.technician_id)])
    ELSE
    LET wo == DictSet(DictSet(DictSet(st.work_orders[w],
                    "assigned_to", args.technician_id),
                    "assigned_to_name", Technicians[k].name),
                    "status", "in_progress")
    IN  Return([success |-> TRUE,
                work_order |-> wo,
                message |-> [fmt |-> "Tehnicar {} je dodeljen radnom nalogu {}",
                             name |-> Technicians[k].name,
                             id |-> args.work_order_id]],
               [st EXCEPT !.work_orders[w] = wo])

\* A variant of assign_technician that leaves the status of the work order
\* as it was.
assign_technician_KeepsStatus(st, args) ==
    IF ~Binds("assign_technician", args)
    THEN Raise(TypeError("assign_technician"), st)
    ELSE
    LET w == FindById(st.work_orders, args.work_order_id)
        k == FindById(Technicians, args.technician_id)
    IN
    IF w = 0
    THEN Return([error |-> [fmt |-> "Work order '{}' not found",
                            id |-> args.work_order_id]], st)
    ELSE IF k = 0
    THEN Return([error |-> [fmt |-> "Technician '{}' not found",
                            id |-> args.technician_id]], st)
    ELSE
    LET wo == DictSet(DictSet(st.work_orders[w],
                    "assigned_to", args.technician_id),
                    "assigned_to_name", Technicians[k].name)
    IN  Return([success |-> TRUE,
                work_order |-> wo,
                message |-> [fmt |-> "Tehnicar {} je dodeljen radnom nalogu {}",
                             name |-> Technicians[k].name,
                             id |-> args.work_order_id]],
               [st EXCEPT !.work_orders[w] = wo])

assign_technician(st, args) ==
    IF ~Binds("assign_technician", args)
    THEN Raise(TypeError("assign_technician"), st)
    ELSE
    LET w == FindById(st.work_orders, args.work_order_id)
        k == FindById(Technicians, args.technician_id)
    IN
    IF w = 0
    THEN Return([error |-> [fmt |-> "Work order '{}' not found",
                            id |-> args.work_order_id]], st)
    ELSE IF k = 0
    THEN Return([error |-> [fmt |-> "Technician '{}' not found",
                            id |-> args.technician_id]], st)
    ELSE
    LET wo == DictSet(DictSet(DictSet(st.work_orders[w],
                    "assigned_to", args.technician_id),
                    "assigned_to_name", Technicians[k].name),
                    "status", "in_progress")
    IN  Return([success |-> TRUE,
                work_order |-> wo,
                message |-> [fmt |-> "Tehnicar {} je dodeljen radnom nalogu {}",
                             name |-> Technicians[k].name,
                             id |-> args.work_order_id]],
               [st EXCEPT !.work_orders[w] = wo])

get_building_info(st, args) ==
    IF ~Binds("get_building_info", args)
    THEN Raise(TypeError("get_building_info"), st)
    ELSE
    LET b == FindById(Buildings, args.building_id)
        OpenHere(wo) == wo.building_id = args.building_id /\ IsOpen(wo)
        building_wos == SelectSeq(st.work_orders, OpenHere)
    IN
    IF b = 0
    THEN Return([error |-> [fmt |-> "Building '{}' not found",
                            id |-> args.building_id]], st)
    ELSE Return([success |-> TRUE,
                 building |-> Buildings[b],
                 open_work_orders |-> Len(building_wos),
                 recent_issues |-> Take(building_wos, 5)], st)

get_technician_availability(st, args) ==
    IF ~Binds("get_technician_availability", args)
    THEN Raise(TypeError("get_technician_availability"), st)
    ELSE
    LET skill_type == Arg(args, "skill_type", None)
        Available(tech) == tech.available
        HasSkill(tech) == InList(skill_type, tech.skills)
        avail == SelectSeq(Technicians, Available)
        filtered == IF Truthy(skill_type) THEN SelectSeq(avail, HasSkill)
                    ELSE avail
    IN  Return([success |-> TRUE, available_technicians |-> filtered,
                count |-> Len(filtered)], st)

update_work_order(st, args) ==
    IF ~Binds("update_work_order", args)
    THEN Raise(TypeError("update_work_order"), st)
    ELSE
    LET w == FindById(st.work_orders, args.work_order_id)
        status == Arg(args, "status", None)
        notes == Arg(args, "notes", None)
    IN
    IF w = 0
    THEN Return([error |-> [fmt |-> "Work order '{}' not found",
                            id |-> args.work_order_id]], st)
    ELSE
    LET wo1 == IF Truthy(status) THEN DictSet(st.work_orders[w], "status", status)
               ELSE st.work_orders[w]
        wo == IF Truthy(notes) THEN DictSet(wo1, "notes", notes) ELSE wo1
    IN  Return([success |-> TRUE, work_order |-> wo],
               [st EXCEPT !.work_orders[w] = wo])

get_tenant_info(st, args) ==
    IF ~Binds("get_tenant_info", args)
    THEN Raise(TypeError("get_tenant_info"), st)
    ELSE Return([success |-> TRUE,
                 tenant |-> [name |-> args.tenant_name,
                             contact |-> "+381641234567",
                             building |-> "Plaza Mall",
                             unit |-> "Food Court - Unit 23",
                             lease_expires |-> "2025-12-31",
                             open_tickets |-> 1]], st)

\* -------------------------------------------------------------------------
\* MockCRMClient
\* -------------------------------------------------------------------------
search_contacts(st, args) ==
    IF ~Binds("search_contacts", args)
    THEN Raise(TypeError("search_contacts"), st)
    ELSE
    LET query_lower == Lower(args.query)
        Matches(c) == \/ Contains(query_lower, Lower(c.name))
                      \/ Contains(query_lower, Lower(c.company))
        results == SelectSeq(st.contacts, Matches)
    IN  Return([success |-> TRUE, contacts |-> results,
                count |-> Len(results)], st)

\* A variant of get_contact_details that returns the history newest first.
get_contact_details_NewestFirst(st, args) ==
    IF ~Binds("get_contact_details", args)
    THEN Raise(TypeError("get_contact_details"), st)
    ELSE
    LET c == FindById(st.contacts, args.contact_id)
        OfContact(i) == i.contact_id = args.contact_id
        found == SelectSeq(st.interactions, OfContact)
    IN
    IF c = 0
    THEN Return([error |-> [fmt |-> "Contact '{}' not found",
                            id |-> args.contact_id]], st)
    ELSE Return([success |-> TRUE,
                 contact |-> st.contacts[c],
                 interaction_history |->
                    [i \in 1..Len(found) |-> found[Len(found) + 1 - i]]],
                st)

get_contact_details(st, args) ==
    IF ~Binds("get_contact_details", args)
    THEN Raise(TypeError("get_contact_details"), st)
    ELSE
    LET c == FindById(st.contacts, args.contact_id)
        OfContact(i) == i.contact_id = args.contact_id
    IN
    IF c = 0
    THEN Return([error |-> [fmt |-> "Contact '{}' not found",
                            id |-> args.contact_id]], st)
    ELSE Return([success |-> TRUE,
                 contact |-> st.contacts[c],
                 interaction_history |-> SelectSeq(st.interactions, OfContact)],
                st)

get_deal_pipeline(st, args) ==
    IF ~Binds("get_deal_pipeline", args)
    THEN Raise(TypeError("get_deal_pipeline"), st)
    ELSE
    LET stage == Arg(args, "stage", None)
        InStage(c) == DictGet(c, "deal_stage") = stage
        HasDeal(c) == "deal_stage" \in DOMAIN c
        deals == IF Truthy(stage) THEN SelectSeq(st.contacts, InStage)
                 ELSE st.contacts
        withDeal == SelectSeq(deals, HasDeal)
        deal_list == [i \in 1..Len(withDeal) |->
                        [contact_id |-> withDeal[i].id,
                         company |-> withDeal[i].company,
                         contact_name |-> withDeal[i].name,
                         stage |-> DictGet(withDeal[i], "deal_stage"),
                         value |-> DictGet(withDeal[i], "deal_value"),
                         last_contact |-> DictGet(withDeal[i], "last_contact")]]
    IN  Return([success |-> TRUE, deals |-> deal_list,
                count |-> Len(deal_list)], st)

\* A variant of log_interaction that appends the interaction before it
\* looks the contact up, and fails on the missing contact afterwards.
log_interaction_AppendsFirst(st, args, t) ==
    IF ~Binds("log_interaction", args)
    THEN Raise(TypeError("log_interaction"), st)
    ELSE
    LET c == FindById(st.contacts, args.contact_id)
        interaction ==
            [id |-> <<"int-", Len(st.interactions) + 1>>,
             contact_id |-> args.contact_id,
             type |-> args.interaction_type,
             notes |-> args.notes,
             timestamp |-> t]
    IN
    IF c = 0
    THEN Raise(TypeError("log_interaction"),
               [st EXCEPT !.interactions = Append(@, interaction)])
    ELSE Return([success |-> TRUE,
                 interaction |-> interaction,
                 message |-> [fmt |-> "Interakcija sa {} je zabelezena",
                              name |-> st.contacts[c].name]],
                [st EXCEPT !.interactions = Append(@, interaction),
                           !.contacts[c] = DictSet(@, "last_contact", t)])

log_interaction(st, args, t) ==
    IF ~Binds("log_interaction", args)
    THEN Raise(TypeError("log_interaction"), st)
    ELSE
    LET c == FindById(st.contacts, args.contact_id) IN
    IF c = 0
    THEN Return([error |-> [fmt |-> "Contact '{}' not found",
                            id |-> args.contact_id]], st)
    ELSE
    LET interaction ==
            [id |-> <<"int-", Len(st.interactions) + 1>>,
             contact_id |-> args.contact_id,
             type |-> args.interaction_type,
             notes |-> args.notes,
             timestamp |-> t]
    IN  Return([success |-> TRUE,
                interaction |-> interaction,
                message |-> [fmt |-> "Interakcija sa {} je zabelezena",
                             name |-> st.contacts[c].name]],
               [st EXCEPT !.interactions = Append(@, interaction),
                          !.contacts[c] = DictSet(@, "last_contact", t)])

create_task(st, args, t) ==
    IF ~Binds("create_task", args)
    THEN Raise(TypeError("create_task"), st)
    ELSE
    LET c == FindById(st.contacts, args.contact_id) IN
    IF c = 0
    THEN Return([error |-> [fmt |-> "Contact '{}' not found",
                            id |-> args.contact_id]], st)
    ELSE Return([success |-> TRUE,
                 task |-> [id |-> <<"task-", t>>,
                           contact_id |-> args.contact_id,
                           contact_name |-> st.contacts[c].name,
                           title |-> args.title,
                           due_date |-> args.due_date,
                           status |-> "pending",
                           created_at |-> t],
                 message |-> [fmt |-> "Zadatak '{}' je kreiran za {}",
                              title |-> args.title,
                              name |-> st.contacts[c].name]], st)

get_company_info(st, args) ==
    IF ~Binds("get_company_info", args)
    THEN Raise(TypeError("get_company_info"), st)
    ELSE
    LET SameCompany(c) == Lower(c.company) = Lower(args.company_name)
        company_contacts == SelectSeq(st.contacts, SameCompany)
    IN
    IF company_contacts = <<>>
    THEN Return([error |-> [fmt |-> "Company '{}' not found",
                            name |-> args.company_name]], st)
    ELSE Return([success |-> TRUE,
                 company |-> [name |-> args.company_name,
                              contact_count |-> Len(company_contacts),
                              contacts |-> company_contacts]], st)

\* -------------------------------------------------------------------------
\* GoogleCalendarClient and GmailClient
\* -------------------------------------------------------------------------
\* A client object: obj says that the attribute holds an object rather than
\* None, service says that its self.service was built.
NoClient == [obj |-> FALSE, service |-> FALSE]

\* What a client's constructor can do: build the service ("ok"), return
\* with self.service = None because credentials.json is missing or build()
\* failed ("no_service"), or let an exception out ("raise": a malformed
\* token file, a failed refresh, a failed OAuth flow, an unwritable token).
InitOutcomes == {"ok", "no_service", "raise"}

GoogleCalendarClient(outcome) ==
    IF outcome = "raise"
    THEN [raised |-> TRUE, client |-> NoClient]
    ELSE [raised |-> FALSE, client |-> [obj |-> TRUE, service |-> outcome = "ok"]]

GmailClient(outcome) ==
    IF outcome = "raise"
    THEN [raised |-> TRUE, client |-> NoClient]
    ELSE [raised |-> FALSE, client |-> [obj |-> TRUE, service |-> outcome = "ok"]]

\* What the remote API does when a method reaches it: answer, fail with
\* HttpError, or fail with another exception (a transport error, or a
\* ValueError from parsing a date argument).
ApiOutcomes == {"ok", "http_error", "other_error"}

OtherError(method) == [class |-> "Exception", method |-> method]

\* The methods of GoogleCalendarClient.  check_availability catches every
\* Exception, the others HttpError alone.
calendar_method(client, method, st, args, api) ==
    IF ~Binds(method, args)
    THEN Raise(TypeError(method), st)
    ELSE IF ~client.service
    THEN Return([error |-> [fmt |-> "Calendar service not available (credentials missing)"]], st)
    ELSE IF api = "ok"
    THEN Return([success |-> TRUE, payload |-> method], st)
    ELSE IF api = "http_error" \/ method = "check_availability"
    THEN Return([error |-> [fmt |-> "{}", e |-> api]], st)
    ELSE Raise(OtherError(method), st)

\* The methods of GmailClient.  get_recent_emails calls search_emails.
gmail_method(client, method, st, args, api) ==
    IF ~Binds(method, args)
    THEN Raise(TypeError(method), st)
    ELSE IF ~client.service
    THEN Return([error |-> [fmt |->
                    IF method \in {"search_emails", "get_recent_emails"}
                    THEN "Gmail service not available (credentials missing)"
                    ELSE "Gmail service not available"]], st)
    ELSE IF api = "ok"
    THEN Return([success |-> TRUE,
                 payload |-> IF method = "get_recent_emails"
                             THEN "search_emails" ELSE method], st)
    ELSE IF api = "http_error"
    THEN Return([error |-> [fmt |-> "{}", e |-> api]], st)
    ELSE Raise(OtherError(IF method = "get_recent_emails"
                          THEN "search_emails" ELSE method), st)

\* -------------------------------------------------------------------------
\* MCPBridge
\* -------------------------------------------------------------------------
\* A Python dict is a sequence of entries in insertion order; writing an
\* existing key replaces its value in place, a new key is appended.
HasKey(d, k) == \E i \in 1..Len(d) : d[i].name = k

Keys(d) == [i \in 1..Len(d) |-> d[i].name]

DictPut(d, e) ==
    IF HasKey(d, e.name)
    THEN [i \in 1..Len(d) |-> IF d[i].name = e.name THEN e ELSE d[i]]
    ELSE Append(d, e)

RECURSIVE DictUpdate(_, _)
DictUpdate(d, es) ==
    IF es = <<>> THEN d ELSE DictUpdate(DictPut(d, Head(es)), Tail(es))

Lookup(d, k) == d[CHOOSE i \in 1..Len(d) : d[i].name = k]

\* A registry entry binds a name to a method of one of the bridge's clients.
Bound(provider, method) == [name |-> method, provider |-> provider, method |-> method]

TotalObserverTools == <<
    Bound("totalobserver", "create_work_order"),
    Bound("totalobserver", "get_work_order_status"),
    Bound("totalobserver", "list_open_work_orders"),
    Bound("totalobserver", "assign_technician"),
    Bound("totalobserver", "get_building_info"),
    Bound("totalobserver", "get_technician_availability"),
    Bound("totalobserver", "update_work_order"),
    Bound("totalobserver", "get_tenant_info") >>

CrmTools == <<
    Bound("crm", "search_contacts"),
    Bound("crm", "get_contact_details"),
    Bound("crm", "get_deal_pipeline"),
    Bound("crm", "log_interaction"),
    Bound("crm", "create_task"),
    Bound("crm", "get_company_info") >>

\* A variant of _calendar_tools that looks at the service, as its docstring
\* says, while the descriptions still look at the client.
_calendar_tools_IfService(cal) ==
    IF ~cal.service THEN <<>>
    ELSE << Bound("calendar", "get_calendar_events"),
            Bound("calendar", "create_event"),
            Bound("calendar", "check_availability"),
            Bound("calendar", "reschedule_event") >>

_calendar_tools(cal) ==
    IF ~cal.obj THEN <<>>
    ELSE << Bound("calendar", "get_calendar_events"),
            Bound("calendar", "create_event"),
            Bound("calendar", "check_availability"),
            Bound("calendar", "reschedule_event") >>

\* A variant of _gmail_tools that registers the mail search under a name
\* the CRM provider uses.
_gmail_tools_Colliding(gm) ==
    IF ~gm.obj THEN <<>>
    ELSE << [name |-> "search_contacts", provider |-> "gmail",
             method |-> "search_emails"],
            Bound("gmail", "get_email_thread"),
            Bound("gmail", "draft_email"),
            Bound("gmail", "send_email"),
            Bound("gmail", "get_recent_emails") >>

_gmail_tools(gm) ==
    IF ~gm.obj THEN <<>>
    ELSE << Bound("gmail", "search_emails"),
            Bound("gmail", "get_email_thread"),
            Bound("gmail", "draft_email"),
            Bound("gmail", "send_email"),
            Bound("gmail", "get_recent_emails") >>

\* A variant of _register_tools in which the tools of an optional provider
\* replace the dict built so far instead of being merged into it.
_register_tools_Replacing(cal, gm) ==
    IF gm.obj THEN _gmail_tools(gm)
    ELSE IF cal.obj THEN _calendar_tools(cal)
    ELSE DictUpdate(DictUpdate(<<>>, TotalObserverTools), CrmTools)

_register_tools(cal, gm) ==
    DictUpdate(
        DictUpdate(
            DictUpdate(DictUpdate(<<>>, TotalObserverTools), CrmTools),
            IF cal.obj THEN _calendar_tools(cal) ELSE <<>>),
        IF gm.obj THEN _gmail_tools(gm) ELSE <<>>)

\* MCPBridge.__init__: the two Google clients are constructed inside one
\* try block; an exception from either leaves both attributes None.
InitGoogle(urg, calOutcome, gmailOutcome) ==
    IF urg
    THEN IF GoogleCalendarClient(calOutcome).raised
         THEN [calendar |-> NoClient, gmail |-> NoClient]
         ELSE IF GmailClient(gmailOutcome).raised
         THEN [calendar |-> NoClient, gmail |-> NoClient]
         ELSE [calendar |-> GoogleCalendarClient(calOutcome).client,
               gmail |-> GmailClient(gmailOutcome).client]
    ELSE [calendar |-> NoClient, gmail |-> NoClient]

\* The bridge object.
Bridge(cal, gm, reg) == [calendar |-> cal, gmail |-> gm, tools |-> reg]

\* self.tools[tool_name](**kwargs): the call of the bound method.  The
\* mock clients are the objects created in __init__, whose state is st; a
\* Google method runs on the client the bridge holds.
Dispatch(entry, b, st, args, api, t) ==
    CASE entry.provider = "calendar" ->
            calendar_method(b.calendar, entry.method, st, args, api)
      [] entry.provider = "gmail" ->
            gmail_method(b.gmail, entry.method, st, args, api)
      [] entry.method = "create_work_order" -> create_work_order(st, args, t)
      [] entry.method = "get_work_order_status" -> get_work_order_status(st, args)
      [] entry.method = "list_open_work_orders" -> list_open_work_orders(st, args)
      [] entry.method = "assign_technician" -> assign_technician(st, args)
      [] entry.method = "get_building_info" -> get_building_info(st, args)
      [] entry.method = "get_technician_availability" ->
            get_technician_availability(st, args)
      [] entry.method = "update_work_order" -> update_work_order(st, args)
      [] entry.method = "get_tenant_info" -> get_tenant_info(st, args)
      [] entry.method = "search_contacts" -> search_contacts(st, args)
      [] entry.method = "get_contact_details" -> get_contact_details(st, args)
      [] entry.method = "get_deal_pipeline" -> get_deal_pipeline(st, args)
      [] entry.method = "log_interaction" -> log_interaction(st, args, t)
      [] entry.method = "create_task" -> create_task(st, args, t)
      [] entry.method = "get_company_info" -> get_company_info(st, args)

\* except Exception: the classes the clause catches.
ExceptionClasses == {"Exception", "TypeError"}

\* A variant of the except clause that catches TypeError alone.
CaughtByExcept_TypeErrorOnly(exc) == exc.class = "TypeError"

CaughtByExcept(exc) == exc.class \in ExceptionClasses

\* A variant of NotFound whose message leaves the known names out.
NotFound_NoNames(b, st, tool_name) ==
    [invoked |-> None, escaped |-> FALSE,
     result |-> [error |-> [fmt |-> "Tool '{}' not found. Available: {}",
                            tool |-> tool_name,
                            available |-> <<>>]],
     tools |-> b.tools, st |-> st]

\* What the unknown-name branch returns.  An outcome of call_tool holds
\* what the caller gets (result, or escaped when an exception leaves the
\* method), whether the bound method was called (invoked), and the registry
\* and the provider state after the call.
NotFound(b, st, tool_name) ==
    [invoked |-> None, escaped |-> FALSE,
     result |-> [error |-> [fmt |-> "Tool '{}' not found. Available: {}",
                            tool |-> tool_name,
                            available |-> Keys(b.tools)]],
     tools |-> b.tools, st |-> st]

\* A variant of TryCall whose error message holds the failure alone, not
\* the name of the tool.
TryCall_NoToolName(b, tool_name, r) ==
    IF ~r.raised
    THEN [invoked |-> Lookup(b.tools, tool_name).method, escaped |-> FALSE,
          result |-> r.value, tools |-> b.tools, st |-> r.st]
    ELSE [invoked |-> Lookup(b.tools, tool_name).method, escaped |-> FALSE,
          result |-> [error |-> [fmt |-> "{}", cause |-> r.exc]],
          tools |-> b.tools, st |-> r.st]

\* A variant of TryCall that wraps the value the method returned.
TryCall_Wrapping(b, tool_name, r) ==
    IF ~r.raised
    THEN [invoked |-> Lookup(b.tools, tool_name).method, escaped |-> FALSE,
          result |-> [success |-> TRUE, result |-> r.value],
          tools |-> b.tools, st |-> r.st]
    ELSE [invoked |-> Lookup(b.tools, tool_name).method, escaped |-> FALSE,
          result |-> [error |-> [fmt |-> "Tool '{}' failed: {}",
                                 tool |-> tool_name, cause |-> r.exc]],
          tools |-> b.tools, st |-> r.st]

\* A variant of TryCall that drops a tool from the registry once it failed.
TryCall_DropsFailedTool(b, tool_name, r) ==
    LET Others(e) == e.name # tool_name IN
    IF ~r.raised
    THEN [invoked |-> Lookup(b.tools, tool_name).method, escaped |-> FALSE,
          result |-> r.value, tools |-> b.tools, st |-> r.st]
    ELSE [invoked |-> Lookup(b.tools, tool_name).method, escaped |-> FALSE,
          result |-> [error |-> [fmt |-> "Tool '{}' failed: {}",
                                 tool |-> tool_name, cause |-> r.exc]],
          tools |-> SelectSeq(b.tools, Others), st |-> r.st]

\* A variant of TryCall that keeps the registry in order of use: the tool
\* just called moves to the end.
TryCall_MovesToEnd(b, tool_name, r) ==
    LET Others(e) == e.name # tool_name
        reordered == Append(SelectSeq(b.tools, Others), Lookup(b.tools, tool_name))
    IN
    IF ~r.raised
    THEN [invoked |-> Lookup(b.tools, tool_name).method, escaped |-> FALSE,
          result |-> r.value, tools |-> reordered, st |-> r.st]
    ELSE [invoked |-> Lookup(b.tools, tool_name).method, escaped |-> FALSE,
          result |-> [error |-> [fmt |-> "Tool '{}' failed: {}",
                                 tool |-> tool_name, cause |-> r.exc]],
          tools |-> reordered, st |-> r.st]

\* A variant of TryCall that returns every outcome in one envelope with an
\* error key, None when the method returned.
TryCall_Envelope(b, tool_name, r) ==
    IF ~r.raised
    THEN [invoked |-> Lookup(b.tools, tool_name).method, escaped |-> FALSE,
          result |-> [error |-> None, data |-> r.value],
          tools |-> b.tools, st |-> r.st]
    ELSE [invoked |-> Lookup(b.tools, tool_name).method, escaped |-> FALSE,
          result |-> [error |-> [fmt |-> "Tool '{}' failed: {}",
                                 tool |-> tool_name, cause |-> r.exc]],
          tools |-> b.tools, st |-> r.st]

\* What the try block produces from the outcome r of the bound method.
TryCall(b, tool_name, r) ==
    IF ~r.raised
    THEN [invoked |-> Lookup(b.tools, tool_name).method, escaped |-> FALSE,
          result |-> r.value, tools |-> b.tools, st |-> r.st]
    ELSE IF CaughtByExcept(r.exc)
    THEN [invoked |-> Lookup(b.tools, tool_name).method, escaped |-> FALSE,
          result |-> [error |-> [fmt |-> "Tool '{}' failed: {}",
                                 tool |-> tool_name, cause |-> r.exc]],
          tools |-> b.tools, st |-> r.st]
    ELSE [invoked |-> Lookup(b.tools, tool_name).method, escaped |-> TRUE,
          result |-> None, tools |-> b.tools, st |-> r.st]

\* MCPBridge.call_tool
call_tool(b, st, tool_name, args, api, t) ==
    IF ~HasKey(b.tools, tool_name)
    THEN NotFound(b, st, tool_name)
    ELSE TryCall(b, tool_name,
                 Dispatch(Lookup(b.tools, tool_name), b, st, args, api, t))

get_available_tools(b) == Keys(b.tools)

Described(name, text) == [name |-> name, description |-> text]

get_tool_descriptions(b) ==
    DictUpdate(DictUpdate(DictUpdate(<<>>, <<
        Described("create_work_order", "Kreira novi radni nalog. Parametri: building_id, issue_type, description, priority, reporter_name?"),
        Described("get_work_order_status", "Proverava status radnog naloga. Parametri: work_order_id"),
        Described("list_open_work_orders", "Lista otvorenih radnih naloga. Parametri: building_id?, technician_id?"),
        Described("assign_technician", "Dodeljuje tehnicara radnom nalogu. Parametri: work_order_id, technician_id"),
        Described("get_building_info", "Informacije o zgradi. Parametri: building_id"),
        Described("get_technician_availability", "Provera dostupnosti tehnicara. Parametri: date?, skill_type?"),
        Described("update_work_order", "Azurira radni nalog. Parametri: work_order_id, status?, notes?"),
        Described("get_tenant_info", "Informacije o zakupcu. Parametri: tenant_name"),
        Described("search_contacts", "Pretraga kontakata. Parametri: query"),
        Described("get_contact_details", "Detalji kontakta. Parametri: contact_id"),
        Described("get_deal_pipeline", "Lista dealova. Parametri: stage?"),
        Described("log_interaction", "Belezi interakciju. Parametri: contact_id, interaction_type, notes"),
        Described("create_task", "Kreira zadatak. Parametri: contact_id, title, due_date"),
        Described("get_company_info", "Informacije o kompaniji. Parametri: company_name") >>),
      IF b.calendar.obj THEN <<
        Described("get_calendar_events", "Lista kalendar dogadjaja. Parametri: start_date?, end_date?, max_results?"),
        Described("create_event", "Kreira novi event. Parametri: title, start_time, end_time, attendees?, description?"),
        Described("check_availability", "Provera slobodnih termina. Parametri: date, duration_minutes?"),
        Described("reschedule_event", "Pomera event. Parametri: event_id, new_start_time") >>
      ELSE <<>>),
      IF b.gmail.obj THEN <<
        Described("search_emails", "Pretraga emailova. Parametri: query, max_results?"),
        Described("get_email_thread", "Ceo email thread. Parametri: thread_id"),
        Described("draft_email", "Kreira draft. Parametri: to, subject, body"),
        Described("send_email", "Salje email. Parametri: to, subject, body"),
        Described("get_recent_emails", "Nedavni emailovi. Parametri: from_address?, max_results?") >>
      ELSE <<>>)

\* -------------------------------------------------------------------------
\* The inputs the callers supply
\* -------------------------------------------------------------------------
AllToolNames == {e.name : e \in {TotalObserverTools[i] : i \in 1..Len(TotalObserverTools)}}
    \cup {e.name : e \in {CrmTools[i] : i \in 1..Len(CrmTools)}}
    \cup {"get_calendar_events", "create_event", "check_availability",
          "reschedule_event"}
    \cup {"search_emails", "get_email_thread", "draft_email", "send_email",
          "get_recent_emails"}

GoogleToolNames == {"get_calendar_events", "create_event", "check_availability",
                    "reschedule_event", "search_emails", "get_email_thread",
                    "draft_email", "send_email", "get_recent_emails"}

\* Names no provider defines: registry keys are case-sensitive.
UnknownNames == {"ping", "Create_Work_Order"}

\* The names the callers use: tools of every provider, and unknown names.
CallNames == {"create_work_order", "assign_technician", "list_open_work_orders",
              "log_interaction", "get_contact_details",
              "get_calendar_events", "check_availability",
              "send_email", "get_recent_emails"} \cup UnknownNames

\* The methods that read the clock, and the values datetime.now() returns.
ClockReaders == {"create_work_order", "log_interaction", "create_task"}

Times == {0, 1}

NoArgs == [k \in {} |-> None]

ArgMaps == <<
    NoArgs,
    [bogus |-> "x"],
    [building_id |-> "plaza-mall", issue_type |-> "HVAC", description |-> "d"],
    [building_id |-> "nowhere", issue_type |-> "HVAC", description |-> "d"],
    [building_id |-> "plaza-mall"],
    [building_id |-> "nowhere"],
    [technician_id |-> "tech-001"],
    [work_order_id |-> WoId(FirstWoId - 1)],
    [work_order_id |-> WoId(FirstWoId + 100)],
    [work_order_id |-> WoId(FirstWoId), technician_id |-> "tech-001"],
    [work_order_id |-> WoId(FirstWoId - 1), technician_id |-> "tech-009"],
    [work_order_id |-> WoId(FirstWoId - 1), status |-> "completed"],
    [skill_type |-> "HVAC"],
    [tenant_name |-> "Dragan"],
    [query |-> <<"d">>],
    [contact_id |-> "contact-001"],
    [contact_id |-> "contact-009"],
    [stage |-> "negotiation"],
    [contact_id |-> "contact-001", interaction_type |-> "call", notes |-> "n"],
    [contact_id |-> "contact-009", interaction_type |-> "call", notes |-> "n"],
    [contact_id |-> "contact-002", title |-> "t", due_date |-> "2025-01-01"],
    [company_name |-> <<"T", "o">>],
    [company_name |-> <<"x">>],
    [title |-> "t", start_time |-> "10:00", end_time |-> "11:00"],
    [date |-> "2025-01-01"],
    [event_id |-> "e1", new_start_time |-> "12:00"],
    [thread_id |-> "th1"],
    [to |-> "a@b", subject |-> "s", body |-> "b"] >>

\* The calls explored: a known method with arguments that bind, and every
\* name with no arguments or with an unexpected keyword.
Relevant(name, args) ==
    \/ DOMAIN args \subseteq {"bogus"}
    \/ name \in AllToolNames /\ Binds(name, args)

Calls == {c \in CallNames \X (1..Len(ArgMaps)) : Relevant(c[1], ArgMaps[c[2]])}

\* The environment of a call matters only when the method reaches it: the
\* API outcome for a Google method whose arguments bind, the clock for a
\* method that reads it.
EnvMatters(name, args, api, t) ==
    /\ api # "ok" => (name \in GoogleToolNames /\ Binds(name, args))
    /\ t # 0 => (name \in ClockReaders /\ Binds(name, args))

\* -------------------------------------------------------------------------
\* The state machine
\* -------------------------------------------------------------------------
TheBridge == Bridge(calendar, gmail, tools)

TheProviders == ProviderState(work_orders, next_wo_id, contacts, interactions)

\* last records the last operation on the bridge: what the caller got
\* (result, escaped), and for call_tool what the method bound to the name
\* did when it was called with these arguments (raised, value, exc).
NoCall == [op |-> "construct", tool |-> None, known |-> FALSE,
           invoked |-> None, raised |-> FALSE, value |-> None, exc |-> None,
           escaped |-> FALSE, result |-> None]

NotCalled == [raised |-> FALSE, value |-> None, exc |-> None]

\* The record of the calls: when the method called is log_interaction and
\* its outcome r is a success object, the interaction it returned is added
\* to the contact's history.
Logged(h, method, args, r) ==
    IF /\ method = "log_interaction"
       /\ ~r.raised
       /\ "success" \in DOMAIN r.value
    THEN [h EXCEPT ![args.contact_id] = Append(@, r.value.interaction)]
    ELSE h

NothingLogged == [c \in {LoadedContacts[i].id : i \in 1..Len(LoadedContacts)} |-> <<>>]

\* The callers that share the one bridge of the agent.
Callers == {"caller-1", "caller-2"}

\* The frame of a caller that is not inside call_tool.  A frame holds the
\* position in call_tool (pc), the locals tool_name, kwargs and result, and
\* own: the result this invocation's own branch produced.
IdleFrame == [pc |-> "idle", tool_name |-> None, kwargs |-> NoArgs,
              result |-> None, own |-> None]

\* The state after MCPBridge(use_real_google) returned.
Init ==
    /\ use_real_google \in BOOLEAN
    /\ calInit \in InitOutcomes \cup {"not_run"}
    /\ gmailInit \in InitOutcomes \cup {"not_run"}
    /\ (calInit = "not_run") <=> ~use_real_google
    /\ (gmailInit = "not_run") <=> (~use_real_google \/ calInit = "raise")
    /\ calendar = InitGoogle(use_real_google, calInit, gmailInit).calendar
    /\ gmail = InitGoogle(use_real_google, calInit, gmailInit).gmail
    /\ tools = _register_tools(calendar, gmail)
    /\ work_orders = LoadedWorkOrders
    /\ next_wo_id = FirstWoId
    /\ contacts = LoadedContacts
    /\ interactions = <<>>
    /\ last = NoCall
    /\ inflight = [p \in Callers |-> IdleFrame]
    /\ history = NothingLogged

CallTool ==
    \E c \in Calls, api \in ApiOutcomes, t \in Times :
        /\ EnvMatters(c[1], ArgMaps[c[2]], api, t)
        /\ LET r == call_tool(TheBridge, TheProviders, c[1], ArgMaps[c[2]], api, t)
               known == HasKey(tools, c[1])
               p == IF known
                    THEN Dispatch(Lookup(tools, c[1]), TheBridge, TheProviders,
                                  ArgMaps[c[2]], api, t)
                    ELSE NotCalled
           IN  /\ (Len(r.st.work_orders) - Len(LoadedWorkOrders))
                     + Len(r.st.interactions) <= MaxAppended
               /\ tools' = r.tools
               /\ work_orders' = r.st.work_orders
               /\ next_wo_id' = r.st.next_wo_id
               /\ contacts' = r.st.contacts
               /\ interactions' = r.st.interactions
               /\ last' = [op |-> "call_tool", tool |-> c[1], known |-> known,
                           invoked |-> r.invoked, raised |-> p.raised,
                           value |-> p.value, exc |-> p.exc,
                           escaped |-> r.escaped, result |-> r.result]
               /\ history' = IF known
                             THEN Logged(history, Lookup(tools, c[1]).method,
                                         ArgMaps[c[2]], p)
                             ELSE history
        /\ UNCHANGED <<use_real_google, calInit, gmailInit, calendar, gmail, inflight>>

GetAvailableTools ==
    /\ last' = [NoCall EXCEPT !.op = "get_available_tools",
                              !.result = get_available_tools(TheBridge)]
    /\ UNCHANGED <<use_real_google, calInit, gmailInit, calendar, gmail, tools,
                   work_orders, next_wo_id, contacts, interactions, inflight,
                   history>>

GetToolDescriptions ==
    /\ last' = [NoCall EXCEPT !.op = "get_tool_descriptions",
                              !.result = get_tool_descriptions(TheBridge)]
    /\ UNCHANGED <<use_real_google, calInit, gmailInit, calendar, gmail, tools,
                   work_orders, next_wo_id, contacts, interactions, inflight,
                   history>>

Next == CallTool \/ GetAvailableTools \/ GetToolDescriptions

Spec == Init /\ [][Next]_vars

\* -------------------------------------------------------------------------
\* Concurrent callers: call_tool statement by statement
\* -------------------------------------------------------------------------
\* The calls the concurrent callers make: a creation, a listing, a call
\* whose arguments do not bind, a CRM call that returns an error object, a
\* mail and an unknown name.
ConcurrentCalls == {c \in Calls :
    \/ c[1] = "create_work_order" /\ c[2] \in {1, 3}
    \/ c[1] = "list_open_work_orders" /\ c[2] = 1
    \/ c[1] = "log_interaction" /\ c[2] = 20
    \/ c[1] = "send_email" /\ c[2] = 28
    \/ c[1] = "ping" /\ c[2] = 1}

\* A variant of SetLocal that keeps the result in an attribute of the
\* bridge, which every invocation reads back.
SetLocal_OnBridge(frames, p, v) ==
    [q \in DOMAIN frames |-> [frames[q] EXCEPT !.result = v]]

\* result = ...: an assignment to a local of p's invocation.
SetLocal(frames, p, v) == [frames EXCEPT ![p].result = v]

\* def call_tool(self, tool_name, **kwargs): p's invocation starts.
EnterCall(p) ==
    /\ inflight[p].pc = "idle"
    /\ \E c \in ConcurrentCalls :
            inflight' = [inflight EXCEPT ![p] =
                            [pc |-> "check", tool_name |-> c[1],
                             kwargs |-> ArgMaps[c[2]], result |-> None,
                             own |-> None]]
    /\ UNCHANGED <<use_real_google, calInit, gmailInit, calendar, gmail, tools,
                   work_orders, next_wo_id, contacts, interactions, last,
                   history>>

\* if tool_name not in self.tools: the error object is built, or the
\* invocation goes on to the try block.
CheckName(p) ==
    /\ inflight[p].pc = "check"
    /\ IF ~HasKey(tools, inflight[p].tool_name)
       THEN LET r == NotFound(TheBridge, TheProviders, inflight[p].tool_name)
            IN  inflight' = SetLocal([inflight EXCEPT ![p].pc = "return",
                                                      ![p].own = r.result],
                                     p, r.result)
       ELSE inflight' = [inflight EXCEPT ![p].pc = "try"]
    /\ UNCHANGED <<use_real_google, calInit, gmailInit, calendar, gmail, tools,
                   work_orders, next_wo_id, contacts, interactions, last,
                   history>>

\* The try block: the name is looked up and the bound method runs.
InvokeTool(p) ==
    /\ inflight[p].pc = "try"
    /\ \E api \in ApiOutcomes, t \in Times :
        /\ EnvMatters(inflight[p].tool_name, inflight[p].kwargs, api, t)
        /\ LET d == Dispatch(Lookup(tools, inflight[p].tool_name),
                             TheBridge, TheProviders,
                             inflight[p].kwargs, api, t)
               r == TryCall(TheBridge, inflight[p].tool_name, d)
           IN  /\ history' = Logged(history,
                                    Lookup(tools, inflight[p].tool_name).method,
                                    inflight[p].kwargs, d)
               /\ (Len(r.st.work_orders) - Len(LoadedWorkOrders))
                     + Len(r.st.interactions) <= MaxAppended
               /\ tools' = r.tools
               /\ work_orders' = r.st.work_orders
               /\ next_wo_id' = r.st.next_wo_id
               /\ contacts' = r.st.contacts
               /\ interactions' = r.st.interactions
               /\ inflight' = SetLocal([inflight EXCEPT ![p].pc = "return",
                                                        ![p].own = r.result],
                                       p, r.result)
    /\ UNCHANGED <<use_real_google, calInit, gmailInit, calendar, gmail, last>>

\* return result: the caller gets the local result and the frame is gone.
ReturnResult(p) ==
    /\ inflight[p].pc = "return"
    /\ inflight' = [inflight EXCEPT ![p] = IdleFrame]
    /\ UNCHANGED <<use_real_google, calInit, gmailInit, calendar, gmail, tools,
                   work_orders, next_wo_id, contacts, interactions, last,
                   history>>

\* The agent's bridge: built with either value of use_real_google, the
\* Google clients initialized when they are asked for.
InitConcurrent ==
    /\ Init
    /\ use_real_google => (calInit = "ok" /\ gmailInit = "ok")

NextConcurrent == \E p \in Callers : EnterCall(p) \/ CheckName(p) \/ InvokeTool(p) \/ ReturnResult(p)

SpecConcurrent == InitConcurrent /\ [][NextConcurrent]_vars

\* -------------------------------------------------------------------------
\* The providers on their own: the methods of MockTotalObserverClient and
\* MockCRMClient called one after another
\* -------------------------------------------------------------------------
MaxCreated == 2   \* work orders created
MaxLogged == 1    \* interactions logged

\* work_orders.json as this specification loads it: a backlog of open work
\* orders of one building, the last of them the order of LoadedWorkOrders.
BacklogSize == 5

Backlog ==
    [i \in 1..BacklogSize |->
        [LoadedWorkOrders[1] EXCEPT !.id = WoId(FirstWoId - 1 - BacklogSize + i)]]

\* The clock stands still while the providers are called: no record is
\* told from another by its timestamp.
ProviderTimes == {0}

ProviderArgs == <<
    NoArgs,
    [building_id |-> "plaza-mall", issue_type |-> "HVAC", description |-> "d"],
    [building_id |-> "tech-park", issue_type |-> "Lift", description |-> "d"],
    [building_id |-> "nowhere", issue_type |-> "HVAC", description |-> "d"],
    [work_order_id |-> WoId(FirstWoId - 1)],
    [work_order_id |-> WoId(FirstWoId + 100)],
    [building_id |-> "plaza-mall"],
    [building_id |-> "tech-park"],
    [building_id |-> "nowhere"],
    [building_id |-> ""],
    [technician_id |-> "tech-001"],
    [building_id |-> "plaza-mall", technician_id |-> "tech-001"],
    [building_id |-> "", technician_id |-> "tech-002"],
    [work_order_id |-> WoId(FirstWoId), technician_id |-> "tech-001"],
    [work_order_id |-> WoId(FirstWoId - 1), technician_id |-> "tech-002"],
    [work_order_id |-> WoId(FirstWoId - 1), technician_id |-> "tech-009"],
    [work_order_id |-> WoId(FirstWoId + 100), technician_id |-> "tech-001"],
    [work_order_id |-> WoId(FirstWoId - 1), status |-> "completed"],
    [work_order_id |-> WoId(FirstWoId + 100), status |-> "completed"],
    [contact_id |-> "contact-001"],
    [contact_id |-> "contact-009"],
    [contact_id |-> "contact-001", interaction_type |-> "call", notes |-> "n"],
    [contact_id |-> "contact-009", interaction_type |-> "call", notes |-> "n"],
    [contact_id |-> "contact-009", title |-> "t", due_date |-> "2025-01-01"],
    [company_name |-> <<"T", "o">>],
    [company_name |-> <<"x">>] >>

\* The methods of the two providers that the claims about their state
\* name.
ProviderMethods == {"create_work_order", "get_work_order_status",
                    "list_open_work_orders", "assign_technician",
                    "get_building_info", "update_work_order",
                    "get_contact_details", "log_interaction", "create_task",
                    "get_company_info"}

\* The calls explored: every method with each argument mapping that binds
\* to its parameters; no arguments at all for the listing alone.
ProviderCalls == {c \in ProviderMethods \X (1..Len(ProviderArgs)) :
    /\ Binds(c[1], ProviderArgs[c[2]])
    /\ DOMAIN ProviderArgs[c[2]] = {} => c[1] = "list_open_work_orders"}

\* One provider over stored data, no call made yet.
InitProviders ==
    /\ use_real_google = FALSE
    /\ calInit = "not_run"
    /\ gmailInit = "not_run"
    /\ calendar = NoClient
    /\ gmail = NoClient
    /\ tools = _register_tools(calendar, gmail)
    /\ work_orders = Backlog
    /\ next_wo_id = FirstWoId
    /\ contacts = LoadedContacts
    /\ interactions = <<>>
    /\ last = NoCall
    /\ inflight = [p \in Callers |-> IdleFrame]
    /\ history = NothingLogged

\* A method of a provider is called with keyword arguments; last records
\* the method, the arguments and what the method did.
ProviderCall ==
    \E c \in ProviderCalls, t \in ProviderTimes :
        /\ LET r == Dispatch(Lookup(tools, c[1]), TheBridge, TheProviders,
                             ProviderArgs[c[2]], "ok", t)
           IN  /\ Len(r.st.work_orders) - Len(Backlog) <= MaxCreated
               /\ Len(r.st.interactions) <= MaxLogged
               /\ work_orders' = r.st.work_orders
               /\ next_wo_id' = r.st.next_wo_id
               /\ contacts' = r.st.contacts
               /\ interactions' = r.st.interactions
               /\ last' = [op |-> "provider_call", tool |-> c[1],
                           args |-> ProviderArgs[c[2]], raised |-> r.raised,
                           value |-> r.value, exc |-> r.exc]
               /\ history' = Logged(history, c[1], ProviderArgs[c[2]], r)
        /\ UNCHANGED <<use_real_google, calInit, gmailInit, calendar, gmail,
                       tools, inflight>>

NextProviders == ProviderCall

SpecProviders == InitProviders /\ [][NextProviders]_vars

\* -------------------------------------------------------------------------
\* The CRM provider on its own: interactions logged and contacts read
\* -------------------------------------------------------------------------
MaxHistory == 3   \* interactions logged

CrmArgs == <<
    [contact_id |-> "contact-001"],
    [contact_id |-> "contact-002"],
    [contact_id |-> "contact-009"],
    [contact_id |-> "contact-001", interaction_type |-> "call", notes |-> "n"],
    [contact_id |-> "contact-001", interaction_type |-> "email", notes |-> "n"],
    [contact_id |-> "contact-002", interaction_type |-> "call", notes |-> "n"],
    [contact_id |-> "contact-009", interaction_type |-> "call", notes |-> "n"] >>

CrmCalls == {c \in {"get_contact_details", "log_interaction"} \X (1..Len(CrmArgs)) :
                Binds(c[1], CrmArgs[c[2]])}

\* A method of the CRM provider is called with keyword arguments.
CrmCall ==
    \E c \in CrmCalls, t \in ProviderTimes :
        /\ LET r == Dispatch(Lookup(tools, c[1]), TheBridge, TheProviders,
                             CrmArgs[c[2]], "ok", t)
           IN  /\ Len(r.st.interactions) <= MaxHistory
               /\ contacts' = r.st.contacts
               /\ interactions' = r.st.interactions
               /\ last' = [op |-> "provider_call", tool |-> c[1],
                           args |-> CrmArgs[c[2]], raised |-> r.raised,
                           value |-> r.value, exc |-> r.exc]
               /\ history' = Logged(history, c[1], CrmArgs[c[2]], r)
        /\ UNCHANGED <<use_real_google, calInit, gmailInit, calendar, gmail,
                       tools, work_orders, next_wo_id, inflight>>

NextCrm == CrmCall

SpecCrm == InitProviders /\ [][NextCrm]_vars

\* -------------------------------------------------------------------------
\* Properties
\* -------------------------------------------------------------------------
IsCall == last.op = "call_tool"

IsErrorObject(res) == DOMAIN res = {"error"}

IsSuccessObject(res) ==
    /\ "error" \notin DOMAIN res
    /\ "success" \in DOMAIN res
    /\ res.success = TRUE

\* C1: a call_tool with a name that is no key of the registry returns an
\* error object whose message holds the unknown name and the list of the
\* registered names, and calls no provider method.
C1_UnknownToolError ==
    (IsCall /\ ~HasKey(tools, last.tool)) =>
        /\ ~last.escaped
        /\ IsErrorObject(last.result)
        /\ last.result.error.fmt = "Tool '{}' not found. Available: {}"
        /\ last.result.error.tool = last.tool
        /\ last.result.error.available = Keys(tools)
        /\ last.invoked = None

\* An unknown name was called on a bridge that holds the Google tools too.
C1_Witness ==
    /\ IsCall
    /\ last.tool = "Create_Work_Order"
    /\ HasKey(tools, "send_email")
    /\ IsErrorObject(last.result)

\* C2: when the method bound to the name raises, call_tool lets no exception
\* out and returns an error object whose message holds the tool name and
\* the description of the failure.
C2_ProviderFailureCaught ==
    (IsCall /\ last.known /\ last.raised) =>
        /\ ~last.escaped
        /\ IsErrorObject(last.result)
        /\ {"tool", "cause"} \subseteq DOMAIN last.result.error
        /\ last.result.error.tool = last.tool
        /\ last.result.error.cause = last.exc

\* A Google method failed with an exception that is not HttpError.
C2_Witness ==
    /\ IsCall
    /\ last.known
    /\ last.raised
    /\ last.exc.class = "Exception"
    /\ last.tool = "send_email"

CalendarToolNames == {"get_calendar_events", "create_event",
                      "check_availability", "reschedule_event"}

GmailToolNames == {"search_emails", "get_email_thread", "draft_email",
                   "send_email", "get_recent_emails"}

BaseToolNames == AllToolNames \ GoogleToolNames

KeySet(d) == {d[i].name : i \in 1..Len(d)}

\* C4: when the constructor of one optional client fails, the registry
\* lacks that client's tools and holds the tools of every other provider,
\* the other optional client's too when its constructor succeeded.
C4_OptionalProvidersIndependent ==
    /\ BaseToolNames \subseteq KeySet(tools)
    /\ calInit = "raise" => KeySet(tools) \cap CalendarToolNames = {}
    /\ gmailInit = "raise" => KeySet(tools) \cap GmailToolNames = {}
    /\ calInit = "ok" => CalendarToolNames \subseteq KeySet(tools)
    /\ gmailInit = "ok" => GmailToolNames \subseteq KeySet(tools)

\* C5: an optional client that could not initialize shows as an absent
\* tool set alone: a call of one of its tools gets the unknown-tool error.
C5_UninitializedProviderIsAbsent ==
    /\ (IsCall /\ last.tool \in CalendarToolNames /\ calInit # "ok") =>
            /\ IsErrorObject(last.result)
            /\ last.result.error.fmt = "Tool '{}' not found. Available: {}"
    /\ (IsCall /\ last.tool \in GmailToolNames /\ gmailInit # "ok") =>
            /\ IsErrorObject(last.result)
            /\ last.result.error.fmt = "Tool '{}' not found. Available: {}"

\* C6: the keys of get_tool_descriptions() are the names that
\* get_available_tools() returns, in every state and for every outcome of
\* the optional clients' construction.
C6_DescriptionsMatchRegistry ==
    KeySet(get_tool_descriptions(TheBridge))
        = {get_available_tools(TheBridge)[i] :
                i \in 1..Len(get_available_tools(TheBridge))}

\* The descriptions were asked of a bridge whose calendar client has no
\* service.
C6_Witness ==
    /\ last.op = "get_tool_descriptions"
    /\ calendar.obj
    /\ ~calendar.service
    /\ Len(last.result) = Len(tools)

\* C7: when the bound method returns, call_tool returns the value it
\* returned, unchanged.
C7_SuccessReturnedAsIs ==
    (IsCall /\ last.known /\ ~last.raised) =>
        /\ ~last.escaped
        /\ last.result = last.value

\* A work order was created through the bridge.
C7_Witness ==
    /\ IsCall
    /\ last.tool = "create_work_order"
    /\ ~last.raised
    /\ IsSuccessObject(last.result)
    /\ last.result.work_order.id = WoId(FirstWoId)

\* C8: the 8 TotalObserver tools and the 6 CRM tools are registered, bound
\* to their providers, whatever use_real_google is and whatever the
\* optional clients' constructors did.
C8_BaseToolsAlwaysRegistered ==
    /\ \A i \in 1..Len(TotalObserverTools) :
            /\ HasKey(tools, TotalObserverTools[i].name)
            /\ Lookup(tools, TotalObserverTools[i].name) = TotalObserverTools[i]
    /\ \A i \in 1..Len(CrmTools) :
            /\ HasKey(tools, CrmTools[i].name)
            /\ Lookup(tools, CrmTools[i].name) = CrmTools[i]
    /\ Len(TotalObserverTools) = 8
    /\ Len(CrmTools) = 6
    /\ KeySet(tools) \subseteq AllToolNames

\* A client's constructor raised and the registry holds the 14 base tools.
C8_Witness ==
    /\ use_real_google
    /\ gmailInit = "raise"
    /\ Len(tools) = 14
    /\ IsCall
    /\ last.tool = "log_interaction"
    /\ IsSuccessObject(last.result)

\* C9: after construction no operation on the bridge adds, removes or
\* rebinds a registry entry or changes another attribute of the bridge.
C9_RegistryImmutable ==
    [][/\ tools' = tools
       /\ calendar' = calendar
       /\ gmail' = gmail]_vars

\* A failing call was made after a call that changed a provider's state,
\* and the registry is the one built at construction.
C9_Witness ==
    /\ IsCall
    /\ last.known
    /\ last.raised
    /\ Len(work_orders) > Len(LoadedWorkOrders)
    /\ tools = _register_tools(calendar, gmail)

\* What a caller gets from a call.
Answer(b, st, c, api, t) ==
    LET r == call_tool(b, st, c[1], ArgMaps[c[2]], api, t)
    IN  [escaped |-> r.escaped, result |-> r.result]

\* C10: a call_tool whose method raised, or whose name was unknown, leaves
\* every later call as it would have been: each call gets after the failing
\* call the answer it would have got before it.  (Where the failing call
\* left the bridge and the providers as they were the answers are the same
\* at once; where it did not, they are compared call by call.)
C10_FailedCallAffectsNoLaterCall ==
    [][(last'.op = "call_tool" /\ (~last'.known \/ last'.raised)) =>
            \/ TheBridge' = TheBridge /\ TheProviders' = TheProviders
            \/ \A c \in Calls, api \in ApiOutcomes, t \in Times :
                EnvMatters(c[1], ArgMaps[c[2]], api, t) =>
                    Answer(TheBridge', TheProviders', c, api, t)
                        = Answer(TheBridge, TheProviders, c, api, t)]_vars

\* A call failed on a bridge one of whose providers had logged an
\* interaction.
C10_Witness ==
    /\ IsCall
    /\ last.known
    /\ last.raised
    /\ last.tool = "create_work_order"
    /\ Len(interactions) = 1
    /\ ~last.escaped


\* C11: get_available_tools() and get_tool_descriptions() are idempotent
\* and order-stable: no step, a call_tool included, changes what either
\* returns (the same entries in the same order), and the list a
\* get_available_tools() step returns, or the mapping a
\* get_tool_descriptions() step returns, is the one a call before that step
\* would have returned.
C11_IntrospectionStable ==
    [][/\ get_available_tools(TheBridge') = get_available_tools(TheBridge)
       /\ get_tool_descriptions(TheBridge') = get_tool_descriptions(TheBridge)
       /\ last'.op = "get_available_tools" =>
                last'.result = get_available_tools(TheBridge)
       /\ last'.op = "get_tool_descriptions" =>
                last'.result = get_tool_descriptions(TheBridge)]_vars

\* The names were listed after a call_tool that changed a provider's state
\* and the list is the one the registry built at construction gives.
C11_Witness ==
    /\ last.op = "get_available_tools"
    /\ Len(interactions) = 1
    /\ Len(last.result) = 23
    /\ last.result = Keys(_register_tools(calendar, gmail))


\* C13: for a registered name, when the bound method returns a value that
\* is no error object, call_tool returns a result with no error key.
C13_SuccessHasNoErrorKey ==
    (IsCall /\ HasKey(tools, last.tool) /\ ~last.raised
            /\ "error" \notin DOMAIN last.value) =>
        /\ ~last.escaped
        /\ "error" \notin DOMAIN last.result

\* A mail was sent through a registered Google tool whose API call
\* succeeded.
C13_Witness ==
    /\ IsCall
    /\ last.tool = "send_email"
    /\ HasKey(tools, last.tool)
    /\ ~last.raised
    /\ "error" \notin DOMAIN last.result
    /\ last.result.success = TRUE

C15_MockModeAnswersGoogleTools ==
    (IsCall /\ ~use_real_google /\ last.tool \in GoogleToolNames) =>
        /\ HasKey(tools, last.tool)
        /\ last.invoked # None
        /\ ~(/\ IsErrorObject(last.result)
              /\ last.result.error.fmt = "Tool '{}' not found. Available: {}")


\* C12: with several callers inside call_tool on the one shared bridge,
\* the registry stays the one built at construction, and what an
\* invocation is about to return is the result its own branch produced for
\* its own name: an error object it returns names its own tool, never
\* another caller's.
C12_ConcurrentCallsIsolated ==
    /\ tools = _register_tools(calendar, gmail)
    /\ \A p \in Callers :
        inflight[p].pc = "return" =>
            /\ inflight[p].result = inflight[p].own
            /\ IsErrorObject(inflight[p].result) =>
                    ("tool" \in DOMAIN inflight[p].result.error =>
                        inflight[p].result.error.tool = inflight[p].tool_name)

\* One caller holds the listing it got before the other caller's creation
\* ran, and the other holds the work order it created.
C12_Witness ==
    /\ inflight["caller-1"].pc = "return"
    /\ inflight["caller-1"].tool_name = "list_open_work_orders"
    /\ inflight["caller-1"].result.count = 1
    /\ inflight["caller-2"].pc = "return"
    /\ inflight["caller-2"].tool_name = "create_work_order"
    /\ IsSuccessObject(inflight["caller-2"].result)
    /\ Len(work_orders) = Len(LoadedWorkOrders) + 1


IsProviderCall == last.op = "provider_call"

\* The work orders create_work_order appended, in the order of creation.
Created == SubSeq(work_orders, Len(Backlog) + 1, Len(work_orders))

\* C16: after any sequence of provider operations the work orders that
\* create_work_order made have pairwise distinct ids, numbered one by one
\* from WO-2024-1848 in the order of creation; a creation that failed on
\* an unknown building used no number up.
C16_WorkOrderIdsConsecutive ==
    /\ Len(work_orders) >= Len(Backlog)
    /\ \A k \in 1..Len(Created) : Created[k].id = WoId(1848 + k - 1)
    /\ \A j, k \in 1..Len(Created) : Created[j].id = Created[k].id => j = k
    /\ next_wo_id = 1848 + Len(Created)
    /\ (IsProviderCall /\ last.tool = "create_work_order"
            /\ IsSuccessObject(last.value)) =>
                /\ Len(Created) > 0
                /\ last.value.work_order = Created[Len(Created)]

\* Two work orders were created, others were assigned and closed, and the
\* last creation failed on an unknown building.
C16_Witness ==
    /\ IsProviderCall
    /\ last.tool = "create_work_order"
    /\ IsErrorObject(last.value)
    /\ Len(Created) = 2
    /\ Created[2].id = WoId(1849)
    /\ work_orders[Len(Backlog)].status = "completed"

\* C17: a provider operation that returns an error object (unknown
\* building, work order, technician, contact or company) leaves the work
\* orders, the next number, the contacts and the interactions as they were.
C17_ErrorLeavesStateUnchanged ==
    [][(last'.op = "provider_call" /\ ~last'.raised
            /\ IsErrorObject(last'.value)) =>
                /\ work_orders' = work_orders
                /\ next_wo_id' = next_wo_id
                /\ contacts' = contacts
                /\ interactions' = interactions]_vars

\* An assignment failed on an unknown technician after a work order was
\* created and an interaction logged.
C17_Witness ==
    /\ IsProviderCall
    /\ last.tool = "assign_technician"
    /\ IsErrorObject(last.value)
    /\ last.value.error.fmt = "Technician '{}' not found"
    /\ Len(Created) > 0
    /\ Len(interactions) > 0

\* C18: after a successful assign_technician(w, t) the work order w has
\* assigned_to t, the technician's name and the status in_progress,
\* list_open_work_orders(technician_id = t) returns it, and every other
\* work order is as it was.
C18_AssignTechnician ==
    [][(last'.op = "provider_call" /\ last'.tool = "assign_technician"
            /\ IsSuccessObject(last'.value)) =>
        LET i == FindById(work_orders, last'.args.work_order_id)
            t == last'.args.technician_id
            k == FindById(Technicians, t)
            listed == list_open_work_orders(TheProviders',
                                            [technician_id |-> t]).value
        IN  /\ i > 0
            /\ k > 0
            /\ Len(work_orders') = Len(work_orders)
            /\ work_orders'[i].id = last'.args.work_order_id
            /\ work_orders'[i].assigned_to = t
            /\ work_orders'[i].assigned_to_name = Technicians[k].name
            /\ work_orders'[i].status = "in_progress"
            /\ \E n \in 1..Len(listed.work_orders) :
                    listed.work_orders[n] = work_orders'[i]
            /\ \A j \in 1..Len(work_orders) :
                    j # i => work_orders'[j] = work_orders[j]]_vars

\* A work order that had been closed was assigned, next to one that was
\* created.
C18_Witness ==
    /\ IsProviderCall
    /\ last.tool = "assign_technician"
    /\ IsSuccessObject(last.value)
    /\ last.args.work_order_id = WoId(1847)
    /\ work_orders[Len(Backlog)].assigned_to = "tech-002"
    /\ work_orders[Len(Backlog)].status = "in_progress"
    /\ Len(Created) > 0


\* C19: list_open_work_orders returns exactly the stored work orders whose
\* status is pending or in_progress and that match every filter given (a
\* filter is given when its argument is a non-empty string), in the order
\* in which they are stored, with count the number returned; it changes
\* nothing.
C19_ListOpenWorkOrders ==
    [][(last'.op = "provider_call" /\ last'.tool = "list_open_work_orders"
            /\ ~last'.raised) =>
        LET a == last'.args
            Given(k) == k \in DOMAIN a /\ a[k] # None /\ a[k] # ""
            Match(wo) ==
                /\ wo.status \in {"pending", "in_progress"}
                /\ Given("building_id") => wo.building_id = a.building_id
                /\ Given("technician_id") => wo.assigned_to = a.technician_id
            idx == {i \in 1..Len(work_orders) : Match(work_orders[i])}
            res == last'.value.work_orders
        IN  /\ IsSuccessObject(last'.value)
            /\ Len(res) = Cardinality(idx)
            /\ \A i \in idx :
                    res[Cardinality({j \in idx : j <= i})] = work_orders[i]
            /\ last'.value.count = Len(res)
            /\ work_orders' = work_orders
            /\ next_wo_id' = next_wo_id
            /\ contacts' = contacts
            /\ interactions' = interactions]_vars

\* Both filters were given and the listing holds the one created work
\* order of that building that the technician has, of seven stored, one
\* of them closed.
C19_Witness ==
    /\ IsProviderCall
    /\ last.tool = "list_open_work_orders"
    /\ DOMAIN last.args = {"building_id", "technician_id"}
    /\ last.args.building_id = "plaza-mall"
    /\ last.value.count = 1
    /\ last.value.work_orders[1].id = WoId(1848)
    /\ Len(Created) = 2
    /\ work_orders[Len(Backlog)].status = "completed"

\* C20: recent_issues of get_building_info holds the last 5 open work
\* orders of the building, those added most recently, or all of them when
\* the building has fewer than 5.
C20_RecentIssuesAreLastFive ==
    (IsProviderCall /\ last.tool = "get_building_info"
            /\ IsSuccessObject(last.value)) =>
        LET Here(wo) == /\ wo.building_id = last.args.building_id
                        /\ wo.status \in {"pending", "in_progress"}
            open == SelectSeq(work_orders, Here)
        IN  last.value.recent_issues =
                IF Len(open) <= 5 THEN open
                ELSE SubSeq(open, Len(open) - 4, Len(open))


\* C21: for every known contact, the interaction_history that
\* get_contact_details returns is exactly the sequence of the interactions
\* that the earlier successful log_interaction calls for that contact
\* recorded, in the order of the calls, and holds no interaction of
\* another contact.
C21_InteractionHistory ==
    /\ (IsProviderCall /\ last.tool = "get_contact_details"
            /\ IsSuccessObject(last.value)) =>
                /\ last.value.interaction_history = history[last.args.contact_id]
                /\ \A n \in 1..Len(last.value.interaction_history) :
                        last.value.interaction_history[n].contact_id
                            = last.args.contact_id
    /\ \A c \in DOMAIN history :
            get_contact_details(TheProviders, [contact_id |-> c])
                    .value.interaction_history = history[c]

\* The history of a contact was read after two interactions were logged
\* for it, one for another contact between them, and a logging that
\* failed.
C21_Witness ==
    /\ IsProviderCall
    /\ last.tool = "get_contact_details"
    /\ last.args.contact_id = "contact-001"
    /\ Len(last.value.interaction_history) = 2
    /\ last.value.interaction_history[1].type = "email"
    /\ last.value.interaction_history[2].type = "call"
    /\ Len(interactions) = 3
    /\ interactions[2].contact_id = "contact-002"

====
